---- MODULE Spec2Model ----
(***************************************************************************)
(* A model of the package index and dependency-graph engine of the VaM     *)
(* package manager (src/scanner.py).                                        *)
(*                                                                         *)
(* A package id or reference is the sequence of its dot-separated          *)
(* segments, as str.split(".") yields them: "X.L.2" is <<"X","L","2">>.    *)
(* The archive of an installed package is named after its id, so the       *)
(* PackageIndex (a dict id -> path) is modelled by its key set `packages`  *)
(* and the files that exist on disk by the set `disk` of their ids.        *)
(***************************************************************************)
EXTENDS Integers, Sequences, FiniteSets, TLC

VARIABLES
    pc,           \* "new" before construction, then "ready", "planned", "executed",
                  \* or "failed" when the constructor raised
    archives,     \* the .var files found by the scan: id -> archive contents
    disk,         \* ids whose archive file currently exists on disk
    cache_dir_ok, \* whether the directory Cache/ exists or can be created
    cache_ok,     \* PackageCache._ok
    cache_rows,   \* table package_refs: filename -> [mtime, size, refs]
    packages,     \* VaMPackageManager.packages (its keys)
    deps_cache,   \* VaMPackageManager._deps_cache: id -> set of refs
    rdeps_cache,  \* VaMPackageManager._rdeps_cache: [built, map]
    plan,         \* the plan last returned by plan_delete
    results,      \* the list last returned by execute_delete
    external,     \* ids whose archive was removed from outside the program
    stored,       \* filename -> the (stat, refs) of the last store not pruned since
    arg,          \* the argument of a call of a pure function
    ret           \* and the value the call returned

vars == <<pc, archives, disk, cache_dir_ok, cache_ok, cache_rows, packages,
          deps_cache, rdeps_cache, plan, results, external, stored, arg, ret>>

---------------------------------------------------------------------------
(* Bounds of the model *)

MaxPkgs == 3      \* archives in the installation directory
MaxRefs == 2      \* raw references in all archives together
MaxArchives == 2  \* archives in the indexing scenarios
MaxIndex == 3     \* installed ids in the resolver scenarios
MaxExternal == 1  \* archives removed from outside in one run
MaxFiles == 3     \* files in the directory tree of the scan scenarios
MaxEdges == 3     \* raw references in the missing-dependency scenarios

---------------------------------------------------------------------------
(* Identifiers *)

LATEST == "latest"

DigitChars == <<"1", "2", "3", "4", "5", "6", "7", "8", "9">>

\* str.isdigit() on a version segment
isdigit(v) == \E n \in 1..Len(DigitChars) : DigitChars[n] = v

\* int(version) of a digit segment
int(v) == CHOOSE n \in 1..Len(DigitChars) : DigitChars[n] = v

\* str.lower() on a version segment
lower(v) == IF v \in {"latest", "LATEST", "Latest"} THEN "latest" ELSE v

\* ".".join(parts[:-1]) and parts[-1]
BaseOf(ref) == SubSeq(ref, 1, Len(ref) - 1)
VersionOf(ref) == ref[Len(ref)]

\* The ids an archive of the model can have, in the order of Python's sorted()
IdOrder == << <<"Ann", "P", "1">>,
              <<"Xen", "L", "1">>, <<"Xen", "L", "2">>, <<"Xen", "L", LATEST>> >>

Ids == {IdOrder[i] : i \in 1..Len(IdOrder)}

\* The references of the graph scenarios
Refs == Ids


\* The characters of a segment (Python indexes the string itself)
Chars(tok) ==
    CASE tok = "Ann" -> <<"A", "n", "n">>
      [] tok = "Bob" -> <<"B", "o", "b">>
      [] tok = "Xen" -> <<"X", "e", "n">>
      [] tok = "ent" -> <<"e", "n", "t">>
      [] tok = "tri" -> <<"t", "r", "i">>
      [] tok = "en" -> <<"e", "n">>
      [] tok = "V1" -> <<"V", "1">>
      [] tok = "-1" -> <<"-", "1">>
      [] tok = "Foo" -> <<"F", "o", "o">>
      [] tok = "1x" -> <<"1", "x">>
      [] tok = "entries" -> <<"e", "n", "t", "r", "i", "e", "s">>
      [] tok = "v1" -> <<"v", "1">>
      [] tok = "19" -> <<"1", "9">>
      [] OTHER -> <<tok>>

isdigitchar(c) == c = "0" \/ isdigit(c)

isalpha(c) == ~isdigitchar(c) /\ c \notin {".", "-", "_", " ", ""}

\* needle in haystack, for strings given by their characters
IsSubstring(needle, hay) ==
    \E i \in 0..(Len(hay) - Len(needle)) :
        SubSeq(hay, i + 1, i + Len(needle)) = needle

\* src/scanner.py is_valid_package_ref
is_valid_package_ref(ref) ==
    IF Len(ref) < 3 THEN FALSE
    ELSE LET author == Chars(ref[1])
             pkg == Chars(ref[2])
             version == VersionOf(ref)
         IN  /\ isdigit(version) \/ lower(version) = LATEST
             /\ Len(author) >= 2
             /\ ~(\A i \in 1..Len(author) : isdigitchar(author[i]))
             /\ ~(/\ author[1] \in {"v", "-"}
                  /\ \A i \in 2..Len(author) :
                        isdigitchar(author[i]) \/ author[i] = ".")
             /\ ~IsSubstring(author, Chars("entries"))
             /\ Len(pkg) >= 1 /\ isalpha(pkg[1])

\* src/scanner.py resolve_ref: the installed digit versions of ref's base
Candidates(ref, pkgs) ==
    {pid \in pkgs : /\ Len(pid) >= 3
                    /\ BaseOf(pid) = BaseOf(ref)
                    /\ isdigit(VersionOf(pid))}

resolve_ref_smallest(ref, pkgs) ==
    IF Len(ref) < 3 THEN ref
    ELSE IF ref \in pkgs THEN ref
    ELSE IF Candidates(ref, pkgs) = {} THEN ref
    ELSE CHOOSE c \in Candidates(ref, pkgs) :
            \A o \in Candidates(ref, pkgs) :
                int(VersionOf(c)) <= int(VersionOf(o))

resolve_ref_no_fast_path(ref, pkgs) ==
    IF Len(ref) < 3 THEN ref
    ELSE IF Candidates(ref, pkgs) = {} THEN ref
    ELSE CHOOSE c \in Candidates(ref, pkgs) :
            \A o \in Candidates(ref, pkgs) :
                int(VersionOf(c)) >= int(VersionOf(o))

resolve_ref(ref, pkgs) ==
    IF Len(ref) < 3 THEN ref
    ELSE IF ref \in pkgs THEN ref
    ELSE IF Candidates(ref, pkgs) = {} THEN ref
    ELSE CHOOSE c \in Candidates(ref, pkgs) :
            \A o \in Candidates(ref, pkgs) :
                int(VersionOf(c)) >= int(VersionOf(o))

\* Path(filename).stem of a file name given by its dot-separated tokens: the
\* last suffix goes, except from a name that is only a suffix (".var")
Stem(f) ==
    IF Len(f) >= 2 /\ ~(Len(f) = 2 /\ f[1] = "")
    THEN SubSeq(f, 1, Len(f) - 1)
    ELSE f

\* the author rules of is_valid_package_ref applied to the file name too
parse_package_name_checks_author(f) ==
    LET parts == Stem(f)
    IN  IF Len(parts) < 3 THEN <<>>
        ELSE IF ~(isdigit(VersionOf(parts)) \/ lower(VersionOf(parts)) = LATEST)
        THEN <<>>
        ELSE IF ~is_valid_package_ref(<<parts[1], "P", "1">>) THEN <<>>
        ELSE BaseOf(parts) \o <<lower(VersionOf(parts))>>

\* src/scanner.py parse_package_name; None is the empty sequence
parse_package_name(f) ==
    LET parts == Stem(f)
    IN  IF Len(parts) < 3 THEN <<>>
        ELSE IF ~(isdigit(VersionOf(parts)) \/ lower(VersionOf(parts)) = LATEST)
        THEN <<>>
        ELSE BaseOf(parts) \o <<lower(VersionOf(parts))>>

\* f.lower().endswith(".var")
is_var_file(f) == Len(f) >= 2 /\ f[Len(f)] \in {"var", "VAR", "Var"}

scan_keeps_last(listing, i, pkgs) ==
    LET f == listing[i]
        pid == parse_package_name(f.name)
    IN  IF ~is_var_file(f.name) \/ pid = <<>> THEN pkgs
        ELSE [q \in DOMAIN pkgs \cup {pid} |-> IF q = pid THEN f ELSE pkgs[q]]

\* find_all_vars lines 68-82: the index after the i-th file of the walk; a
\* file is [dir, name, size]
scan_file(listing, i, pkgs) ==
    LET f == listing[i]
        pid == parse_package_name(f.name)
    IN  IF ~is_var_file(f.name) \/ pid = <<>> THEN pkgs
        ELSE IF pid \notin DOMAIN pkgs \/ f.size > pkgs[pid].size
        THEN [q \in DOMAIN pkgs \cup {pid} |-> IF q = pid THEN f ELSE pkgs[q]]
        ELSE pkgs

RECURSIVE scan_from(_, _, _)
scan_from(listing, i, pkgs) ==
    IF i > Len(listing) THEN pkgs
    ELSE scan_from(listing, i + 1, scan_file(listing, i, pkgs))

\* src/scanner.py find_all_vars over the files in the order os.walk yields
\* them: id -> the file kept
find_all_vars(listing) == scan_from(listing, 1, <<>>)

\* src/scanner.py latest_alias; the empty token is the empty sequence
latest_alias(pid) ==
    IF Len(pid) < 3 \/ ~isdigit(VersionOf(pid)) THEN <<>>
    ELSE BaseOf(pid) \o <<LATEST>>

---------------------------------------------------------------------------
(* Archive reader.  An archive is [readable, meta_type, desc_type, meta,   *)
(* text, mtime, size]: whether it opens as a ZIP, the JSON type of its     *)
(* manifest ("dict", or "list" for any other non-empty value) and of the  *)
(* manifest's `description`, the string keys of the manifest's             *)
(* `dependencies`, the regex captures of its text entries, and its stat.   *)

\* extract_refs_from_meta line 156: meta.get on a manifest that json.load
\* returned as a non-empty value without .get raises AttributeError
meta_raises(a) == a.readable /\ a.meta_type # "dict"

\* normalise a trailing .Latest / .LATEST to .latest
NormaliseLatest(key) ==
    IF Len(key) >= 3 /\ lower(VersionOf(key)) = LATEST
    THEN BaseOf(key) \o <<LATEST>>
    ELSE key

\* src/scanner.py extract_refs_from_meta (read_meta_json swallows a bad ZIP)
extract_refs_from_meta(a, self_id) ==
    IF ~a.readable THEN {}
    ELSE {NormaliseLatest(k) : k \in a.meta} \ {self_id}

\* src/scanner.py extract_refs_from_var
extract_refs_from_var(a, self_id) ==
    IF ~a.readable THEN {}
    ELSE {r \in {NormaliseLatest(c) : c \in a.text} :
              is_valid_package_ref(r)} \ {self_id}

---------------------------------------------------------------------------
(* Reference cache.  Rows are keyed by the archive's basename, which is    *)
(* the id it parses to; mtimes are in microseconds.                        *)

MTIME_TOLERANCE_US == 1000

Abs(x) == IF x < 0 THEN -x ELSE x

NoRows == [f \in {} |-> [mtime |-> 0, size |-> 0, refs |-> {}]]

lookup_tolerance_inclusive(ok, rows, name, a) ==
    IF /\ ok
       /\ name \in DOMAIN rows
       /\ Abs(rows[name].mtime - a.mtime) <= MTIME_TOLERANCE_US
       /\ rows[name].size = a.size
    THEN [hit |-> TRUE, refs |-> rows[name].refs]
    ELSE [hit |-> FALSE, refs |-> {}]

\* src/scanner.py PackageCache.lookup: [hit, refs]
lookup(ok, rows, name, a) ==
    IF /\ ok
       /\ name \in DOMAIN rows
       /\ Abs(rows[name].mtime - a.mtime) < MTIME_TOLERANCE_US
       /\ rows[name].size = a.size
    THEN [hit |-> TRUE, refs |-> rows[name].refs]
    ELSE [hit |-> FALSE, refs |-> {}]

\* src/scanner.py PackageCache.store
store(ok, rows, name, a, refs) ==
    IF ~ok THEN rows
    ELSE [f \in DOMAIN rows \cup {name} |->
            IF f = name
            THEN [mtime |-> a.mtime, size |-> a.size, refs |-> refs]
            ELSE rows[f]]

prune_keeps_every_row(ok, rows, known_filenames) == rows

\* src/scanner.py PackageCache.prune
prune(ok, rows, known_filenames) ==
    IF ~ok THEN rows
    ELSE [f \in DOMAIN rows \cap known_filenames |-> rows[f]]

\* lookup(path) and store(path, refs) for a path that may not exist: stat
\* raises inside the try, so lookup misses and store writes nothing.  A path
\* is <<directory, basename>>; `files` maps the paths that exist to their stat.
lookup_at(ok, rows, files, path) ==
    IF path \notin DOMAIN files THEN [hit |-> FALSE, refs |-> {}]
    ELSE lookup(ok, rows, path[2], files[path])

store_at(ok, rows, files, path, refs) ==
    IF path \notin DOMAIN files THEN rows
    ELSE store(ok, rows, path[2], files[path], refs)

---------------------------------------------------------------------------
(* Construction: VaMPackageManager.__init__ *)

IndexedRefs_unions_sources(ok, rows, pid, a) ==
    LET cached == lookup(ok, rows, pid, a)
    IN  IF cached.hit THEN [refs |-> cached.refs, scanned |-> FALSE]
        ELSE [refs |-> (extract_refs_from_meta(a, pid)
                          \cup extract_refs_from_var(a, pid)) \ {pid},
              scanned |-> TRUE]

\* lines 323-332: the reference set of one archive, [refs, scanned]
\* lines 323-327: indexing this archive raises, on a cache miss
IndexRaises(ok, rows, pid, a) ==
    ~lookup(ok, rows, pid, a).hit /\ meta_raises(a)

IndexedRefs(ok, rows, pid, a) ==
    LET cached == lookup(ok, rows, pid, a)
        meta_refs == extract_refs_from_meta(a, pid)
    IN  IF cached.hit THEN [refs |-> cached.refs, scanned |-> FALSE]
        ELSE IF meta_refs # {}
        THEN [refs |-> meta_refs \ {pid}, scanned |-> TRUE]
        ELSE [refs |-> extract_refs_from_var(a, pid) \ {pid}, scanned |-> TRUE]

\* lines 338-342: resolve every raw reference other than pid itself
DirectDeps(refs, pid, pkgs) ==
    {resolve_ref(ref, pkgs) : ref \in {r \in refs : r # pid}}

RECURSIVE StoreAll(_, _, _, _)
\* the cache.store calls of the indexing loop, one per scanned archive
StoreAll(ok, rows, todo, pruned) ==
    IF todo = {} THEN rows
    ELSE LET pid == CHOOSE p \in todo : TRUE
             r == IndexedRefs(ok, pruned, pid, archives[pid])
         IN  StoreAll(ok,
                      IF r.scanned
                      THEN store(ok, rows, pid, archives[pid], r.refs)
                      ELSE rows,
                      todo \ {pid}, pruned)

\* The constructor either returns a manager (pc "ready") or raises (pc
\* "failed"): cache_dir.mkdir (line 224) stands outside PackageCache's try,
\* and the indexing loop stops at the first archive whose manifest raises,
\* after the rows of the archives walked before it were stored.
Construct ==
    /\ pc = "new"
    /\ LET pkgs == DOMAIN archives
           pruned == prune(cache_ok, cache_rows, pkgs)
           raisers == {pid \in pkgs :
                          IndexRaises(cache_ok, pruned, pid, archives[pid])}
       IN  IF ~cache_dir_ok
           THEN /\ pc' = "failed"
                /\ UNCHANGED <<cache_rows, packages, deps_cache, rdeps_cache>>
           ELSE IF raisers # {}
           THEN /\ pc' = "failed"
                /\ \E before \in SUBSET (pkgs \ raisers) :
                      cache_rows' = StoreAll(cache_ok, pruned, before, pruned)
                /\ UNCHANGED <<packages, deps_cache, rdeps_cache>>
           ELSE /\ pc' = "ready"
                /\ packages' = pkgs
                /\ deps_cache' =
                      [pid \in pkgs |->
                         DirectDeps(IndexedRefs(cache_ok, pruned, pid,
                                                archives[pid]).refs,
                                    pid, pkgs)]
                /\ cache_rows' = StoreAll(cache_ok, pruned, pkgs, pruned)
                /\ rdeps_cache' = [built |-> FALSE, map |-> <<>>]
    /\ UNCHANGED <<arg, ret, cache_dir_ok, stored, archives, disk, cache_ok,
                   plan, results, external>>

---------------------------------------------------------------------------
(* Graph engine *)

\* self._deps_cache.get(d, set())
DepsGet(deps, d) == IF d \in DOMAIN deps THEN deps[d] ELSE {}

RECURSIVE Visit(_, _, _)
\* the worklist loop of get_dependencies: queue holds the nodes still to pop
Visit(deps, queue, visited) ==
    IF queue \subseteq visited THEN visited
    ELSE LET dep == CHOOSE d \in queue \ visited : TRUE
         IN  Visit(deps,
                   (queue \ {dep}) \cup (DepsGet(deps, dep) \ (visited \cup {dep})),
                   visited \cup {dep})

get_dependencies_direct_only(pkgs, deps, pid, recursive) ==
    IF pid \notin pkgs THEN {}
    ELSE DepsGet(deps, pid)

\* src/scanner.py VaMPackageManager.get_dependencies
get_dependencies(pkgs, deps, pid, recursive) ==
    IF pid \notin pkgs THEN {}
    ELSE IF ~recursive THEN DepsGet(deps, pid)
    ELSE Visit(deps, DepsGet(deps, pid), {})

\* src/scanner.py VaMPackageManager._build_reverse_deps, on a cache miss
build_reverse_deps(pkgs, deps) ==
    LET keys == UNION {get_dependencies(pkgs, deps, pid, FALSE) : pid \in pkgs}
    IN  [d \in keys |-> {pid \in pkgs : d \in get_dependencies(pkgs, deps, pid, FALSE)}]

\* _build_reverse_deps: the cached index when built, else a fresh one
reverse_deps(rc, pkgs, deps) ==
    IF rc.built THEN rc.map ELSE build_reverse_deps(pkgs, deps)

\* rdeps.get(p, [])
RdepsGet(rdeps, p) == IF p \in DOMAIN rdeps THEN rdeps[p] ELSE {}

RECURSIVE VisitUp(_, _, _)
VisitUp(rdeps, queue, visited) ==
    IF queue \subseteq visited THEN visited
    ELSE LET p == CHOOSE d \in queue \ visited : TRUE
         IN  VisitUp(rdeps,
                     (queue \ {p}) \cup (RdepsGet(rdeps, p) \ (visited \cup {p})),
                     visited \cup {p})

\* src/scanner.py VaMPackageManager.get_dependents, given the reverse index
get_dependents(rdeps, pid) ==
    LET alias == latest_alias(pid)
        seed == RdepsGet(rdeps, pid)
                  \cup (IF alias # <<>> THEN RdepsGet(rdeps, alias) ELSE {})
    IN  VisitUp(rdeps, seed, {})

\* src/scanner.py VaMPackageManager.find_orphans (ids only, sizes left out)
find_orphans(pkgs, deps) ==
    {pid \in pkgs :
        ~\E other_pid \in DOMAIN deps :
            /\ other_pid # pid
            /\ \E dep \in deps[other_pid] :
                  /\ BaseOf(dep) = BaseOf(pid)
                  /\ \/ VersionOf(dep) = VersionOf(pid)
                     \/ /\ VersionOf(dep) = LATEST
                        /\ isdigit(VersionOf(pid))
                        /\ resolve_ref(dep, pkgs) = pid}

\* get_dep_tree's default max_depth
DEFAULT_MAX_DEPTH == 6

Max(S) == CHOOSE x \in S : \A y \in S : y <= x

\* get_dep_tree lines 399-414: best_version.get(base) over the closure:
\* nothing, float("inf") when base.latest is in it, else the largest digit
best_version(all_deps, base) ==
    LET same == {d \in all_deps : Len(d) >= 3 /\ BaseOf(d) = base}
        digits == {int(VersionOf(d)) : d \in {e \in same : isdigit(VersionOf(e))}}
    IN  IF \E d \in same : VersionOf(d) = LATEST THEN [kind |-> "inf", v |-> 0]
        ELSE IF digits = {} THEN [kind |-> "none", v |-> 0]
        ELSE [kind |-> "int", v |-> Max(digits)]

is_superseded_or_equal(all_deps, dep) ==
    IF Len(dep) < 3 THEN FALSE
    ELSE IF VersionOf(dep) = LATEST THEN FALSE
    ELSE IF ~isdigit(VersionOf(dep)) THEN FALSE
    ELSE LET best == best_version(all_deps, BaseOf(dep))
         IN  IF best.kind = "none" THEN FALSE
             ELSE IF best.kind = "inf" THEN TRUE
             ELSE int(VersionOf(dep)) <= best.v

\* get_dep_tree lines 416-429
is_superseded(all_deps, dep) ==
    IF Len(dep) < 3 THEN FALSE
    ELSE IF VersionOf(dep) = LATEST THEN FALSE
    ELSE IF ~isdigit(VersionOf(dep)) THEN FALSE
    ELSE LET best == best_version(all_deps, BaseOf(dep))
         IN  IF best.kind = "none" THEN FALSE
             ELSE IF best.kind = "inf" THEN TRUE
             ELSE int(VersionOf(dep)) < best.v

RECURSIVE walk(_, _, _, _, _, _, _)
\* get_dep_tree lines 432-440: the triples walk(node, depth, visited) appends
\* from the i-th id of sorted order on
walk(deps, all_deps, max_depth, node, depth, visited, i) ==
    IF depth > max_depth \/ i > Len(IdOrder) THEN <<>>
    ELSE LET dep == IdOrder[i]
             rest == walk(deps, all_deps, max_depth, node, depth, visited, i + 1)
         IN  IF dep \notin DepsGet(deps, node) \/ is_superseded(all_deps, dep)
             THEN rest
             ELSE <<<<dep, depth, node>>>>
                  \o (IF dep \notin visited
                      THEN walk(deps, all_deps, max_depth, dep, depth + 1,
                                visited \cup {dep}, 1)
                      ELSE <<>>)
                  \o rest

\* src/scanner.py VaMPackageManager.get_dep_tree: the list of
\* <<dep, depth, parent>>
get_dep_tree(pkgs, deps, pid, max_depth) ==
    walk(deps, get_dependencies(pkgs, deps, pid, TRUE), max_depth, pid, 1, {pid}, 1)

\* find_orphans line 511: the size of an orphan whose archive is gone
find_orphans_raises(pkgs, deps, dsk) ==
    \E pid \in find_orphans(pkgs, deps) : pid \notin dsk

\* package_info: stat of an archive that is gone (line 448), .get on a
\* manifest that is not an object (line 457), .strip on a description that
\* is not a string (line 459)
package_info_raises(pkgs, dsk, files, pid) ==
    /\ pid \in pkgs
    /\ \/ pid \notin dsk
       \/ meta_raises(files[pid])
       \/ files[pid].readable /\ files[pid].desc_type # "str"

---------------------------------------------------------------------------
(* Delete planner and executor *)

NoPlan == [target |-> <<>>, with_deps |-> FALSE, dependents |-> {},
           to_delete |-> <<>>, keep_deps |-> {}, delete_deps |-> {}]

Repeat(x, n) == [k \in 1..n |-> x]

RECURSIVE SortedFrom(_, _)
\* sorted(list): the ids in Python's order, each as often as the list holds it
SortedFrom(i, count) ==
    IF i > Len(IdOrder) THEN <<>>
    ELSE Repeat(IdOrder[i], count[IdOrder[i]]) \o SortedFrom(i + 1, count)

plan_delete_keeps_nothing(pkgs, deps, rdeps, pid, with_deps) ==
    LET installed_deps ==
            IF with_deps
            THEN {d \in get_dependencies(pkgs, deps, pid, TRUE) : d \in pkgs}
            ELSE {}
        count == [id \in Ids |-> (IF id = pid THEN 1 ELSE 0)
                                  + (IF id \in installed_deps THEN 1 ELSE 0)]
    IN  [target |-> pid,
         with_deps |-> with_deps,
         dependents |-> get_dependents(rdeps, pid),
         to_delete |-> SortedFrom(1, count),
         keep_deps |-> {},
         delete_deps |-> installed_deps]

\* src/scanner.py VaMPackageManager.plan_delete, for an installed pid
plan_delete(pkgs, deps, rdeps, pid, with_deps) ==
    LET installed_deps ==
            IF with_deps
            THEN {d \in get_dependencies(pkgs, deps, pid, TRUE) : d \in pkgs}
            ELSE {}
        others(d) == get_dependents(rdeps, d) \ {pid}
        keep == {d \in installed_deps : others(d) # {}}
        delete_deps_list == installed_deps \ keep
        count == [id \in Ids |-> (IF id = pid THEN 1 ELSE 0)
                                  + (IF id \in delete_deps_list THEN 1 ELSE 0)]
    IN  [target |-> pid,
         with_deps |-> with_deps,
         dependents |-> get_dependents(rdeps, pid),
         to_delete |-> SortedFrom(1, count),
         keep_deps |-> {<<d, others(d)>> : d \in keep},
         delete_deps |-> delete_deps_list]

Range(seq) == {seq[i] : i \in 1..Len(seq)}

\* sorted(dependents) of find_missing line 473
SortedSet(S) == SortedFrom(1, [id \in Ids |-> IF id \in S THEN 1 ELSE 0])

\* find_missing lines 467-475: one (mid, sorted dependents) per missing ref
MissingEntries(pkgs, deps) ==
    {<<d, SortedSet({pid \in DOMAIN deps : d \in deps[pid]})>> :
        d \in {x \in UNION {deps[pid] : pid \in DOMAIN deps} : x \notin pkgs}}

\* the orders of a set of entries
Orders(entries) ==
    {l \in [1..Cardinality(entries) -> entries] :
        \A i, j \in 1..Cardinality(entries) : l[i] = l[j] => i = j}

find_missing_ascending(pkgs, deps) ==
    {l \in Orders(MissingEntries(pkgs, deps)) :
        \A i, j \in 1..Len(l) : i < j => Len(l[i][2]) <= Len(l[j][2])}

\* src/scanner.py VaMPackageManager.find_missing: the lists it can return.
\* The entries are built in the iteration order of a dict and of sets of
\* strings, and the sort on line 476 is stable, so entries with equally
\* many dependents come in any order.
find_missing(pkgs, deps) ==
    {l \in Orders(MissingEntries(pkgs, deps)) :
        \A i, j \in 1..Len(l) : i < j => Len(l[i][2]) >= Len(l[j][2])}

\* plan_delete lines 536-540: total_mb stats every archive of to_delete
plan_delete_raises(pkgs, deps, rdeps, dsk, pid, with_deps) ==
    \E p \in Range(plan_delete(pkgs, deps, rdeps, pid, with_deps).to_delete) :
        p \in pkgs /\ p \notin dsk

DeleteEntryStaleRdeps(st, pid, err) ==
    IF pid \in st.packages /\ pid \in st.disk
    THEN IF err
         THEN [st EXCEPT !.results = Append(@, [pid |-> pid, ok |-> FALSE, msg |-> "unlink error"])]
         ELSE [st EXCEPT !.disk = @ \ {pid},
                         !.packages = @ \ {pid},
                         !.deps = [q \in DOMAIN @ \ {pid} |-> @[q]],
                         !.results = Append(@, [pid |-> pid, ok |-> TRUE, msg |-> "Deleted"])]
    ELSE [st EXCEPT !.results = Append(@, [pid |-> pid, ok |-> FALSE, msg |-> "File not found"])]

DeleteEntryKeepsRow(st, pid, err) ==
    IF pid \in st.packages /\ pid \in st.disk
    THEN IF err
         THEN [st EXCEPT !.results = Append(@, [pid |-> pid, ok |-> FALSE, msg |-> "unlink error"])]
         ELSE [st EXCEPT !.disk = @ \ {pid},
                         !.packages = @ \ {pid},
                         !.rdeps = [built |-> FALSE, map |-> <<>>],
                         !.results = Append(@, [pid |-> pid, ok |-> TRUE, msg |-> "Deleted"])]
    ELSE [st EXCEPT !.results = Append(@, [pid |-> pid, ok |-> FALSE, msg |-> "File not found"])]

\* one iteration of execute_delete's loop; err: unlink raises for this file
DeleteEntry(st, pid, err) ==
    IF pid \in st.packages /\ pid \in st.disk
    THEN IF err
         THEN [st EXCEPT !.results = Append(@, [pid |-> pid, ok |-> FALSE, msg |-> "unlink error"])]
         ELSE [st EXCEPT !.disk = @ \ {pid},
                         !.packages = @ \ {pid},
                         !.deps = [q \in DOMAIN @ \ {pid} |-> @[q]],
                         !.rdeps = [built |-> FALSE, map |-> <<>>],
                         !.results = Append(@, [pid |-> pid, ok |-> TRUE, msg |-> "Deleted"])]
    ELSE [st EXCEPT !.results = Append(@, [pid |-> pid, ok |-> FALSE, msg |-> "File not found"])]

RECURSIVE execute_delete(_, _, _, _)
\* src/scanner.py VaMPackageManager.execute_delete, from entry i on
execute_delete(st, to_delete, i, errs) ==
    IF i > Len(to_delete) THEN st
    ELSE execute_delete(DeleteEntry(st, to_delete[i], to_delete[i] \in errs),
                        to_delete, i + 1, errs)

---------------------------------------------------------------------------
(* Operations of a constructed manager *)

BuiltRdeps == [built |-> TRUE,
               map |-> reverse_deps(rdeps_cache, packages, deps_cache)]

\* get_dependents(pid), as the detail pane calls it for any id it shows:
\* whatever pid is, the call leaves the reverse index built
GetDependents ==
    /\ pc \notin {"new", "failed"}
    /\ rdeps_cache' = BuiltRdeps
    /\ UNCHANGED <<arg, ret, cache_dir_ok, stored, pc, archives, disk, cache_ok, cache_rows, packages,
                   deps_cache, plan, results, external>>

\* package_info(pid): path.stat() raises before the reverse index is asked
\* for when the archive is gone
PackageInfo ==
    /\ pc \notin {"new", "failed"}
    /\ \E r \in {IF pid \in disk THEN BuiltRdeps ELSE rdeps_cache : pid \in packages} :
          rdeps_cache' = r
    /\ UNCHANGED <<arg, ret, cache_dir_ok, stored, pc, archives, disk, cache_ok, cache_rows, packages,
                   deps_cache, plan, results, external>>

\* plan_delete(pid, with_deps) from the delete flow; summing total_mb stats
\* every archive of to_delete and raises when one is gone
PlanDelete ==
    /\ pc \in {"ready", "executed"}
    /\ \E pid \in packages, with_deps \in BOOLEAN :
          IF plan_delete_raises(packages, deps_cache, BuiltRdeps.map, disk,
                                pid, with_deps)
          THEN plan' = NoPlan /\ pc' = "ready"
          ELSE /\ plan' = plan_delete(packages, deps_cache, BuiltRdeps.map,
                                     pid, with_deps)
               /\ pc' = "planned"
    /\ rdeps_cache' = BuiltRdeps
    /\ results' = <<>>
    /\ UNCHANGED <<arg, ret, cache_dir_ok, stored, archives, disk, cache_ok, cache_rows, packages,
                   deps_cache, external>>

\* the confirm popup is dismissed
Cancel ==
    /\ pc = "planned"
    /\ pc' = "ready"
    /\ plan' = NoPlan
    /\ UNCHANGED <<arg, ret, cache_dir_ok, stored, archives, disk, cache_ok, cache_rows, packages,
                   deps_cache, rdeps_cache, results, external>>

\* execute_delete(plan) after the popup is confirmed
ExecuteDelete ==
    /\ pc = "planned"
    /\ \E errs \in SUBSET (Range(plan.to_delete) \cap packages \cap disk) :
          LET st == execute_delete([packages |-> packages, deps |-> deps_cache,
                                    disk |-> disk, rdeps |-> rdeps_cache,
                                    results |-> <<>>],
                                   plan.to_delete, 1, errs)
          IN  /\ packages' = st.packages
              /\ deps_cache' = st.deps
              /\ disk' = st.disk
              /\ rdeps_cache' = st.rdeps
              /\ results' = st.results
    /\ pc' = "executed"
    /\ UNCHANGED <<arg, ret, cache_dir_ok, stored, archives, cache_ok, cache_rows, plan, external>>

\* an archive is removed by something other than the program
ExternalRemove ==
    /\ pc \notin {"new", "failed"}
    /\ Cardinality(external) < MaxExternal
    /\ \E pid \in disk :
          /\ disk' = disk \ {pid}
          /\ external' = external \cup {pid}
    /\ UNCHANGED <<arg, ret, cache_dir_ok, stored, pc, archives, cache_ok, cache_rows, packages, deps_cache,
                   rdeps_cache, plan, results>>

Next ==
    \/ Construct
    \/ GetDependents
    \/ PackageInfo
    \/ PlanDelete
    \/ Cancel
    \/ ExecuteDelete
    \/ ExternalRemove

---------------------------------------------------------------------------
(* Installations the graph scenarios start from: every archive readable,   *)
(* its references declared in the manifest (none of them its own id: the   *)
(* indexing scenarios cover those), the cache empty.                       *)

RECURSIVE SubsetsUpTo(_, _)
\* the subsets of T with at most k elements
SubsetsUpTo(T, k) ==
    IF k = 0 THEN {{}}
    ELSE LET prev == SubsetsUpTo(T, k - 1)
         IN  prev \cup {e \cup {x} : e \in prev, x \in T}

GraphArchive(refs) ==
    [readable |-> TRUE, meta_type |-> "dict", desc_type |-> "str",
     meta |-> refs, text |-> {}, mtime |-> 0, size |-> 1]

Init ==
    /\ pc = "new"
    /\ \E S \in SubsetsUpTo(Ids, MaxPkgs) :
       \E E \in SubsetsUpTo({x \in S \X Refs : x[1] # x[2]}, MaxRefs) :
          /\ S # {}
          /\ archives = [pid \in S |-> GraphArchive({e[2] : e \in {x \in E : x[1] = pid}})]
          /\ disk = S
    /\ cache_dir_ok = TRUE
    /\ cache_ok = TRUE
    /\ cache_rows = NoRows
    /\ packages = {}
    /\ deps_cache = <<>>
    /\ rdeps_cache = [built |-> FALSE, map |-> <<>>]
    /\ plan = NoPlan
    /\ results = <<>>
    /\ external = {}
    /\ stored = <<>>
    /\ arg = <<>>
    /\ ret = <<>>

Spec == Init /\ [][Next]_vars

---------------------------------------------------------------------------
(* Query scenarios: the installations of the graph scenarios, indexed and  *)
(* changed by deletions, any of which may fail, then asked one query.      *)

\* get_dep_tree(arg) with the default depth
QueryTree ==
    /\ pc \in {"ready", "executed"}
    /\ \E pid \in packages :
          /\ arg' = pid
          /\ ret' = get_dep_tree(packages, deps_cache, pid, DEFAULT_MAX_DEPTH)
    /\ pc' = "tree"
    /\ UNCHANGED <<cache_dir_ok, stored, archives, disk, cache_ok, cache_rows,
                   packages, deps_cache, rdeps_cache, plan, results, external>>

\* get_dependencies(arg, recursive) for both values of recursive, arg being
\* any id, installed or not
QueryDependencies ==
    /\ pc \in {"ready", "executed"}
    /\ \E pid \in Refs :
          /\ arg' = pid
          /\ ret' = [all |-> get_dependencies(packages, deps_cache, pid, TRUE),
                     direct |-> get_dependencies(packages, deps_cache, pid, FALSE)]
    /\ pc' = "deps"
    /\ UNCHANGED <<cache_dir_ok, stored, archives, disk, cache_ok, cache_rows,
                   packages, deps_cache, rdeps_cache, plan, results, external>>

NextQuery ==
    \/ Construct
    \/ PlanDelete
    \/ ExecuteDelete
    \/ QueryTree
    \/ QueryDependencies

SpecQuery == Init /\ [][NextQuery]_vars

---------------------------------------------------------------------------
(* Missing-dependency scenarios: the installations of the graph scenarios  *)
(* with one more reference, so that two missing references can have        *)
(* different numbers of dependents; find_missing is called after indexing. *)

InitMissing ==
    /\ pc = "new"
    /\ \E S \in SubsetsUpTo(Ids, MaxPkgs) :
       \E E \in SubsetsUpTo({x \in S \X Refs : x[1] # x[2]}, MaxEdges) :
          /\ S # {}
          /\ archives = [pid \in S |-> GraphArchive({e[2] : e \in {x \in E : x[1] = pid}})]
          /\ disk = S
    /\ cache_dir_ok = TRUE
    /\ cache_ok = TRUE
    /\ cache_rows = NoRows
    /\ packages = {}
    /\ deps_cache = <<>>
    /\ rdeps_cache = [built |-> FALSE, map |-> <<>>]
    /\ plan = NoPlan
    /\ results = <<>>
    /\ external = {}
    /\ stored = <<>>
    /\ arg = <<>>
    /\ ret = <<>>

\* find_missing()
FindMissing ==
    /\ pc = "ready"
    /\ ret' \in find_missing(packages, deps_cache)
    /\ pc' = "returned"
    /\ UNCHANGED <<arg, cache_dir_ok, stored, archives, disk, cache_ok, cache_rows,
                   packages, deps_cache, rdeps_cache, plan, results, external>>

NextMissing ==
    \/ Construct
    \/ FindMissing

SpecMissing == InitMissing /\ [][NextMissing]_vars

---------------------------------------------------------------------------
(* Indexing scenarios: few archives, of any content, over a cache left by  *)
(* an earlier run.                                                         *)

IndexIds == {<<"Ann", "P", "1">>, <<"Xen", "L", "1">>, <<"Xen", "L", "2">>}

\* what a manifest or a text entry of these archives may name
IndexRefs == {<<"Xen", "L", "LATEST">>, <<"Ann", "P", "1">>}

\* an unreadable archive has no content to speak of; a manifest that is a
\* list has no `dependencies`, and one manifest has a number as description
IndexArchives ==
    {[readable |-> FALSE, meta_type |-> "dict", desc_type |-> "str",
      meta |-> {}, text |-> {}, mtime |-> 0, size |-> 1],
     [readable |-> TRUE, meta_type |-> "list", desc_type |-> "str",
      meta |-> {}, text |-> {}, mtime |-> 0, size |-> 1],
     [readable |-> TRUE, meta_type |-> "dict", desc_type |-> "int",
      meta |-> {}, text |-> {}, mtime |-> 0, size |-> 1]}
    \cup {[readable |-> TRUE, meta_type |-> "dict", desc_type |-> "str",
           meta |-> m, text |-> t, mtime |-> 0, size |-> 1] :
             m \in SubsetsUpTo(IndexRefs, 1), t \in SubsetsUpTo(IndexRefs, 1)}

\* the rows an earlier run may have left: current, within the tolerance of
\* the archive's mtime, or stale by a millisecond
OldRows ==
    {[mtime |-> 0, size |-> 1, refs |-> {}],
     [mtime |-> 0, size |-> 1, refs |-> {<<"Ann", "P", "1">>}],
     [mtime |-> 500, size |-> 1, refs |-> {}],
     [mtime |-> 1000, size |-> 1, refs |-> {<<"Ann", "P", "1">>}]}

InitIndex ==
    /\ pc = "new"
    /\ \E S \in SubsetsUpTo(IndexIds, MaxArchives) :
          /\ S # {}
          /\ archives \in [S -> IndexArchives]
          /\ disk = S
    /\ cache_dir_ok \in BOOLEAN
    /\ cache_ok \in BOOLEAN
    /\ cache_dir_ok \/ ~cache_ok
    /\ \E K \in SUBSET IndexIds :
          /\ cache_ok \/ K = {}
          /\ cache_rows \in [K -> OldRows]
    /\ packages = {}
    /\ deps_cache = <<>>
    /\ rdeps_cache = [built |-> FALSE, map |-> <<>>]
    /\ plan = NoPlan
    /\ results = <<>>
    /\ external = {}
    /\ stored = <<>>
    /\ arg = <<>>
    /\ ret = <<>>

NextIndex ==
    \/ Construct
    \/ GetDependents
    \/ PackageInfo
    \/ ExternalRemove

SpecIndex == InitIndex /\ [][NextIndex]_vars

---------------------------------------------------------------------------
(* The resolver on its own: any small index, any reference.                *)

ResolveIds == {<<"Xen", "L", "1">>, <<"Xen", "L", "2">>, <<"Xen", "L", "3">>,
               <<"Xen", "L", LATEST>>, <<"Ann", "P", "1">>}

\* installed ids, a pinned version of a base with nothing installed, the
\* alias of such a base, and a reference of two segments
ResolveRefs == ResolveIds \cup {<<"Ann", "P", LATEST>>, <<"Bob", "Q", "1">>,
                                <<"Bob", "Q", LATEST>>, <<"Xen", "1">>}

InitResolve ==
    /\ pc = "call"
    /\ packages \in SubsetsUpTo(ResolveIds, MaxIndex)
    /\ arg \in ResolveRefs
    /\ ret = <<>>
    /\ archives = <<>>
    /\ disk = packages
    /\ cache_dir_ok = TRUE
    /\ cache_ok = FALSE
    /\ cache_rows = NoRows
    /\ deps_cache = <<>>
    /\ rdeps_cache = [built |-> FALSE, map |-> <<>>]
    /\ plan = NoPlan
    /\ results = <<>>
    /\ external = {}
    /\ stored = <<>>

\* resolve_ref(arg, packages)
ResolveRef ==
    /\ pc = "call"
    /\ ret' = resolve_ref(arg, packages)
    /\ pc' = "returned"
    /\ UNCHANGED <<arg, cache_dir_ok, stored, archives, disk, cache_ok, cache_rows, packages,
                   deps_cache, rdeps_cache, plan, results, external>>

NextResolve == ResolveRef

SpecResolve == InitResolve /\ [][NextResolve]_vars

---------------------------------------------------------------------------
(* The file-name parser on its own, and the scan of a directory that holds *)
(* the one file.                                                           *)

ParseFilenames ==
    {<<a, p, v, e>> : a \in {"Ann", "v1", "19"}, p \in {"Foo", "2"},
                      v \in {"1", "3", "latest", "LATEST", "Latest", "x"},
                      e \in {"var", "VAR"}}
    \cup {<<"Ann", "Foo", "var">>, <<"Ann", "var">>, <<"", "var">>,
          <<"Ann", "Foo", "Bar", "1", "var">>, <<"Ann", "Foo", "1", "txt">>}

InitParse ==
    /\ pc = "call"
    /\ arg \in ParseFilenames
    /\ ret = <<>>
    /\ archives = <<>>
    /\ disk = {<<"a", arg>>}
    /\ cache_dir_ok = TRUE
    /\ cache_ok = FALSE
    /\ cache_rows = NoRows
    /\ stored = <<>>
    /\ packages = {}
    /\ deps_cache = <<>>
    /\ rdeps_cache = [built |-> FALSE, map |-> <<>>]
    /\ plan = NoPlan
    /\ results = <<>>
    /\ external = {}

\* parse_package_name(arg), and find_all_vars of a directory holding arg
ParseName ==
    /\ pc = "call"
    /\ ret' = [pid |-> parse_package_name(arg),
               index |-> find_all_vars(<<[dir |-> "a", name |-> arg, size |-> 1]>>)]
    /\ packages' = DOMAIN ret'.index
    /\ pc' = "returned"
    /\ UNCHANGED <<arg, cache_dir_ok, stored, archives, disk, cache_ok, cache_rows,
                   deps_cache, rdeps_cache, plan, results, external>>

NextParse == ParseName

SpecParse == InitParse /\ [][NextParse]_vars

---------------------------------------------------------------------------
(* The scan on its own: a few files in two directories, some of them       *)
(* parsing to one id, walked in any order.                                 *)

ScanNames == {<<"Ann", "P", "1", "var">>, <<"Xen", "L", "latest", "var">>,
              <<"Xen", "L", "LATEST", "var">>, <<"Ann", "P", "var">>}

ScanFiles == [dir : {"a", "b"}, name : ScanNames, size : {1, 2}]

PathOf(f) == <<f.dir, f.name>>

\* the walks of n files: no path twice
Listings(n) ==
    {l \in [1..n -> ScanFiles] :
        \A i, j \in 1..n : PathOf(l[i]) = PathOf(l[j]) => i = j}

InitScan ==
    /\ pc = "call"
    /\ \E n \in 1..MaxFiles : arg \in Listings(n)
    /\ disk = {PathOf(arg[i]) : i \in 1..Len(arg)}
    /\ ret = <<>>
    /\ archives = <<>>
    /\ cache_dir_ok = TRUE
    /\ cache_ok = FALSE
    /\ cache_rows = NoRows
    /\ stored = <<>>
    /\ packages = {}
    /\ deps_cache = <<>>
    /\ rdeps_cache = [built |-> FALSE, map |-> <<>>]
    /\ plan = NoPlan
    /\ results = <<>>
    /\ external = {}

\* find_all_vars over the listing; no statement of it removes a file
Scan ==
    /\ pc = "call"
    /\ ret' = find_all_vars(arg)
    /\ packages' = DOMAIN ret'
    /\ pc' = "returned"
    /\ UNCHANGED <<arg, cache_dir_ok, stored, archives, disk, cache_ok, cache_rows,
                   deps_cache, rdeps_cache, plan, results, external>>

NextScan == Scan

SpecScan == InitScan /\ [][NextScan]_vars

---------------------------------------------------------------------------
(* The reference predicate on its own.                                     *)

ValidRefs ==
    {<<a, p, v>> : a \in {"Ann", "A", "19", "v1", "V1", "-1", "ent", "tri", "en",
                          "entries"},
                   p \in {"Foo", "1x", ""},
                   v \in {"1", "latest", "LATEST", "x"}}
    \cup {<<"Ann", "1">>, <<"Ann", "Foo", "Bar", "2">>}

InitValid ==
    /\ pc = "call"
    /\ arg \in ValidRefs
    /\ ret = <<>>
    /\ archives = <<>>
    /\ disk = {}
    /\ cache_dir_ok = TRUE
    /\ cache_ok = FALSE
    /\ cache_rows = NoRows
    /\ stored = <<>>
    /\ packages = {}
    /\ deps_cache = <<>>
    /\ rdeps_cache = [built |-> FALSE, map |-> <<>>]
    /\ plan = NoPlan
    /\ results = <<>>
    /\ external = {}

\* is_valid_package_ref(arg)
IsValidRef ==
    /\ pc = "call"
    /\ ret' = is_valid_package_ref(arg)
    /\ pc' = "returned"
    /\ UNCHANGED <<arg, cache_dir_ok, stored, archives, disk, cache_ok, cache_rows,
                   packages, deps_cache, rdeps_cache, plan, results, external>>

NextValid == IsValidRef

SpecValid == InitValid /\ [][NextValid]_vars

---------------------------------------------------------------------------
(* The cache on its own: a working store, two archives of one basename in  *)
(* different directories and a third one, written, touched and removed     *)
(* between the calls.                                                      *)

CachePaths == {<<"a", "Ann.P.1.var">>, <<"b", "Ann.P.1.var">>,
               <<"a", "Xen.L.1.var">>}

CacheNames == {p[2] : p \in CachePaths}

\* mtimes a millisecond apart, and just under two
CacheMtimes == {0, 1000, 1999}

CacheSizes == {1, 2}

CacheRefSets == {{}, {<<"Xen", "L", "1">>}}

CacheFile(m, sz) == [GraphArchive({}) EXCEPT !.mtime = m, !.size = sz]

\* the stats each path can have; the third path has one
CacheStats(p) ==
    IF p[2] = "Ann.P.1.var"
    THEN {CacheFile(m, sz) : m \in CacheMtimes, sz \in CacheSizes}
    ELSE {CacheFile(0, 1)}

InitCache ==
    /\ pc = "cache"
    /\ \E S \in SUBSET CachePaths :
          /\ archives \in [S -> {CacheFile(0, 1)}]
          /\ disk = S
    /\ cache_dir_ok = TRUE
    /\ cache_ok = TRUE
    /\ cache_rows = NoRows
    /\ stored = <<>>
    /\ packages = {}
    /\ deps_cache = <<>>
    /\ rdeps_cache = [built |-> FALSE, map |-> <<>>]
    /\ plan = NoPlan
    /\ results = <<>>
    /\ external = {}
    /\ arg = <<>>
    /\ ret = <<>>

\* cache.store(path, refs); `stored` remembers what the call was given
CacheStore ==
    /\ pc \in {"cache", "looked"}
    /\ \E path \in CachePaths, refs \in CacheRefSets :
          /\ cache_rows' = store_at(cache_ok, cache_rows, archives, path, refs)
          /\ stored' =
                IF path \notin DOMAIN archives THEN stored
                ELSE [f \in DOMAIN stored \cup {path[2]} |->
                        IF f = path[2]
                        THEN [mtime |-> archives[path].mtime,
                              size |-> archives[path].size,
                              refs |-> refs]
                        ELSE stored[f]]
    /\ pc' = "cache" /\ arg' = <<>> /\ ret' = <<>>
    /\ UNCHANGED <<cache_dir_ok, archives, disk, cache_ok, packages, deps_cache,
                   rdeps_cache, plan, results, external>>

\* cache.prune(known_filenames)
CachePrune ==
    /\ pc \in {"cache", "looked"}
    /\ \E known \in SUBSET CacheNames :
          /\ cache_rows' = prune(cache_ok, cache_rows, known)
          /\ stored' = [f \in DOMAIN stored \cap known |-> stored[f]]
    /\ pc' = "cache" /\ arg' = <<>> /\ ret' = <<>>
    /\ UNCHANGED <<cache_dir_ok, archives, disk, cache_ok, packages, deps_cache,
                   rdeps_cache, plan, results, external>>

\* a file is created, rewritten or touched
CacheWrite ==
    /\ pc \in {"cache", "looked"}
    /\ \E path \in CachePaths :
       \E a \in CacheStats(path) :
          /\ archives' = [q \in DOMAIN archives \cup {path} |->
                            IF q = path THEN a ELSE archives[q]]
          /\ disk' = disk \cup {path}
    /\ pc' = "cache" /\ arg' = <<>> /\ ret' = <<>>
    /\ UNCHANGED <<cache_dir_ok, stored, cache_ok, cache_rows, packages,
                   deps_cache, rdeps_cache, plan, results, external>>

\* a file is removed
CacheRemove ==
    /\ pc \in {"cache", "looked"}
    /\ \E path \in DOMAIN archives :
          /\ archives' = [q \in DOMAIN archives \ {path} |-> archives[q]]
          /\ disk' = disk \ {path}
    /\ pc' = "cache" /\ arg' = <<>> /\ ret' = <<>>
    /\ UNCHANGED <<cache_dir_ok, stored, cache_ok, cache_rows, packages,
                   deps_cache, rdeps_cache, plan, results, external>>

\* cache.lookup(arg)
CacheLookup ==
    /\ pc \in {"cache", "looked"}
    /\ \E path \in CachePaths :
          /\ arg' = path
          /\ ret' = lookup_at(cache_ok, cache_rows, archives, path)
    /\ pc' = "looked"
    /\ UNCHANGED <<cache_dir_ok, stored, archives, disk, cache_ok, cache_rows,
                   packages, deps_cache, rdeps_cache, plan, results, external>>

NextCache ==
    \/ CacheStore
    \/ CachePrune
    \/ CacheWrite
    \/ CacheRemove
    \/ CacheLookup

SpecCache == InitCache /\ [][NextCache]_vars

---------------------------------------------------------------------------
(* Traversal scenarios: up to three archives whose manifests name any of   *)
(* three references, indexed, then one traversal run statement by          *)
(* statement.                                                              *)
(* `arg` is the call [op, pid, max_depth]; `stored` is the work list of    *)
(* get_dependencies and get_dependents (a Python list, popped at its end)  *)
(* or the call stack of walk, one frame [node, depth, visited, todo] per   *)
(* active call; `ret` is the visited set, in the order the nodes entered   *)
(* it, or the list of triples so far.                                      *)

\* the depths get_dep_tree is asked for: two that cut the walk short and
\* the default
WalkDepths == {1, 2, DEFAULT_MAX_DEPTH}

\* the installed ids and what their manifests may name: Xen.L.latest
\* resolves to Xen.L.2 when that is installed, also from Xen.L.2 itself
WalkIds == {<<"Ann", "P", "1">>, <<"Xen", "L", "1">>, <<"Xen", "L", "2">>}

WalkRefs == {<<"Ann", "P", "1">>, <<"Xen", "L", "1">>, <<"Xen", "L", LATEST>>}

InitWalk ==
    /\ pc = "new"
    /\ \E S \in SUBSET WalkIds :
          /\ S # {}
          /\ archives \in [S -> {GraphArchive(R) : R \in SUBSET WalkRefs}]
          /\ \A pid \in S : pid \notin archives[pid].meta
          /\ disk = S
    /\ cache_dir_ok = TRUE
    /\ cache_ok = TRUE
    /\ cache_rows = NoRows
    /\ packages = {}
    /\ deps_cache = <<>>
    /\ rdeps_cache = [built |-> FALSE, map |-> <<>>]
    /\ plan = NoPlan
    /\ results = <<>>
    /\ external = {}
    /\ stored = <<>>
    /\ arg = <<>>
    /\ ret = <<>>

walk_enters_one_deeper(depth, max_depth) == depth <= max_depth + 1

\* walk line 433: the call goes on unless depth > max_depth
walk_enters(depth, max_depth) == depth <= max_depth

\* the frame of a call walk(node, depth, visited): the loop of line 435
\* has all of sorted(deps.get(node)) before it
Frame(deps, node, depth, visited) ==
    [node |-> node, depth |-> depth, visited |-> visited,
     todo |-> SortedSet(DepsGet(deps, node))]

\* walk(node, depth, visited) called under the frames `frames`
Call(frames, deps, max_depth, node, depth, visited) ==
    IF walk_enters(depth, max_depth)
    THEN Append(frames, Frame(deps, node, depth, visited))
    ELSE frames

\* get_dependencies(pid, recursive=True) lines 355-356, pid installed
StartDependencies ==
    /\ pc = "ready"
    /\ \E pid \in packages :
          /\ arg' = [op |-> "deps", pid |-> pid, max_depth |-> 0]
          /\ stored' \in Orders(DepsGet(deps_cache, pid))
    /\ ret' = <<>>
    /\ pc' = "deps"
    /\ UNCHANGED <<cache_dir_ok, archives, disk, cache_ok, cache_rows,
                   packages, deps_cache, rdeps_cache, plan, results, external>>

\* get_dependents(pid) lines 380-384
StartDependents ==
    /\ pc = "ready"
    /\ rdeps_cache' = BuiltRdeps
    /\ \E pid \in packages :
          LET rdeps == rdeps_cache'.map
              alias == latest_alias(pid)
              seed == RdepsGet(rdeps, pid)
                        \cup (IF alias # <<>> THEN RdepsGet(rdeps, alias) ELSE {})
          IN  /\ arg' = [op |-> "dependents", pid |-> pid, max_depth |-> 0]
              /\ stored' \in Orders(seed)
    /\ ret' = <<>>
    /\ pc' = "dependents"
    /\ UNCHANGED <<cache_dir_ok, archives, disk, cache_ok, cache_rows,
                   packages, deps_cache, plan, results, external>>

\* one turn of the while loop, lines 357-364 and 385-392: pop the last
\* entry; if it is new, add it and append its neighbours not yet visited
StepWorklist ==
    /\ pc \in {"deps", "dependents"}
    /\ stored # <<>>
    /\ LET dep == stored[Len(stored)]
           rest == SubSeq(stored, 1, Len(stored) - 1)
           next == IF pc = "deps" THEN DepsGet(deps_cache, dep)
                   ELSE RdepsGet(rdeps_cache.map, dep)
       IN  IF dep \in Range(ret)
           THEN /\ stored' = rest
                /\ ret' = ret
           ELSE /\ ret' = Append(ret, dep)
                /\ \E l \in Orders({s \in next : s \notin Range(ret')}) :
                      stored' = rest \o l
    /\ UNCHANGED <<pc, arg, cache_dir_ok, archives, disk, cache_ok, cache_rows,
                   packages, deps_cache, rdeps_cache, plan, results, external>>

\* get_dep_tree(pid, max_depth) lines 398 and 441: walk(pid, 1, {pid})
StartTree ==
    /\ pc = "ready"
    /\ \E pid \in packages, max_depth \in WalkDepths :
          /\ arg' = [op |-> "tree", pid |-> pid, max_depth |-> max_depth]
          /\ stored' = Call(<<>>, deps_cache, max_depth, pid, 1, {pid})
    /\ ret' = <<>>
    /\ pc' = "tree"
    /\ UNCHANGED <<cache_dir_ok, archives, disk, cache_ok, cache_rows,
                   packages, deps_cache, rdeps_cache, plan, results, external>>

\* one turn of the for loop of the innermost call, lines 435-440, or its
\* return when the loop is over
StepTree ==
    /\ pc = "tree"
    /\ stored # <<>>
    /\ LET n == Len(stored)
           top == stored[n]
           all_deps == get_dependencies(packages, deps_cache, arg.pid, TRUE)
       IN  IF top.todo = <<>>
           THEN /\ stored' = SubSeq(stored, 1, n - 1)
                /\ ret' = ret
           ELSE LET dep == Head(top.todo)
                    frames == [stored EXCEPT ![n].todo = Tail(top.todo)]
                IN  IF is_superseded(all_deps, dep)
                    THEN /\ stored' = frames
                         /\ ret' = ret
                    ELSE /\ ret' = Append(ret, <<dep, top.depth, top.node>>)
                         /\ stored' =
                               IF dep \notin top.visited
                               THEN Call(frames, deps_cache, arg.max_depth, dep,
                                         top.depth + 1, top.visited \cup {dep})
                               ELSE frames
    /\ UNCHANGED <<pc, arg, cache_dir_ok, archives, disk, cache_ok, cache_rows,
                   packages, deps_cache, rdeps_cache, plan, results, external>>

\* lines 365, 393 and 442: the work list or the call stack is empty
Return ==
    /\ pc \in {"deps", "dependents", "tree"}
    /\ stored = <<>>
    /\ pc' = "returned"
    /\ UNCHANGED <<arg, ret, stored, cache_dir_ok, archives, disk, cache_ok,
                   cache_rows, packages, deps_cache, rdeps_cache, plan,
                   results, external>>

NextWalk ==
    \/ Construct
    \/ StartDependencies
    \/ StartDependents
    \/ StartTree
    \/ StepWorklist
    \/ StepTree
    \/ Return

\* the interpreter runs the one thread to its end
SpecWalk == InitWalk /\ [][NextWalk]_vars /\ WF_vars(NextWalk)

---------------------------------------------------------------------------
(* Properties of the delete planner *)

\* the reverse index a query sees in the current state
CurrentRdeps == reverse_deps(rdeps_cache, packages, deps_cache)

\* C1: every dependency that a with_deps plan keeps has a dependent that the
\* plan does not delete.
C1_KeptDepHasSurvivingDependent ==
    (pc = "planned" /\ plan.with_deps) =>
        \A k \in plan.keep_deps :
            get_dependents(CurrentRdeps, k[1]) \ Range(plan.to_delete) # {}

---------------------------------------------------------------------------
(* Properties of the index *)

\* C2: after indexing no installed package is among its own direct
\* dependencies, whatever its archive refers to.
C2_NoSelfDependency ==
    pc # "new" => \A pid \in packages : pid \notin deps_cache[pid]

\* C3: for installed a and b, b is a transitive dependency of a exactly when
\* a is a dependent of b.
C3_ForwardIffDependent ==
    pc # "new" =>
        \A a \in packages, b \in packages :
            (b \in get_dependencies(packages, deps_cache, a, TRUE))
                <=> (a \in get_dependents(CurrentRdeps, b))

\* C4: an installed package is an orphan exactly when no other installed
\* package has a direct dependency that resolves to it in the current index.
C4_OrphanIffUnreferenced ==
    pc # "new" =>
        \A pid \in packages :
            (pid \in find_orphans(packages, deps_cache))
                <=> ~\E other \in packages \ {pid} :
                        \E d \in deps_cache[other] :
                            resolve_ref(d, packages) = pid

---------------------------------------------------------------------------
(* Properties of the resolver *)

\* the installed digit-versioned ids of a base, and the highest of them
DigitIdsOfBase(base, idx) ==
    {p \in idx : BaseOf(p) = base /\ isdigit(VersionOf(p))}

IsHighestOfBase(p, base, idx) ==
    /\ p \in DigitIdsOfBase(base, idx)
    /\ \A o \in DigitIdsOfBase(base, idx) : int(VersionOf(o)) <= int(VersionOf(p))

IsLatestRef(r) == Len(r) >= 3 /\ VersionOf(r) = LATEST

\* C5 as stated: base.latest resolves to the highest installed digit version
\* of the base whenever one is installed, also when base.latest is installed.
C5_Original ==
    (pc = "returned" /\ IsLatestRef(arg) /\ DigitIdsOfBase(BaseOf(arg), packages) # {})
        => IsHighestOfBase(ret, BaseOf(arg), packages)

\* C5: base.latest resolves to the highest installed digit version of the
\* base whenever one is installed and base.latest is not itself installed;
\* an installed base.latest resolves to itself.
C5_LatestResolvesToHighest ==
    (pc = "returned" /\ IsLatestRef(arg) /\ DigitIdsOfBase(BaseOf(arg), packages) # {})
        => IF arg \in packages
           THEN ret = arg
           ELSE IsHighestOfBase(ret, BaseOf(arg), packages)

C5_Witness ==
    /\ pc = "returned"
    /\ arg = <<"Xen", "L", LATEST>>
    /\ packages = {<<"Xen", "L", "1">>, <<"Xen", "L", "3">>, <<"Ann", "P", "1">>}
    /\ ret = <<"Xen", "L", "3">>

\* C6: an installed reference resolves to itself; any other one resolves to
\* the highest installed digit version of its base when there is one, and to
\* itself when there is none; so the result is the reference or an installed
\* id of its base, and resolving the result again changes nothing.
C6_ResolveCases ==
    pc = "returned" =>
        /\ arg \in packages => ret = arg
        /\ (arg \notin packages /\ DigitIdsOfBase(BaseOf(arg), packages) # {})
              => IsHighestOfBase(ret, BaseOf(arg), packages)
        /\ (arg \notin packages /\ DigitIdsOfBase(BaseOf(arg), packages) = {})
              => ret = arg
        /\ ret = arg \/ (ret \in packages /\ BaseOf(ret) = BaseOf(arg))
        /\ resolve_ref(ret, packages) = ret

\* a pinned version that is not installed falls forward to the highest one
C6_Witness ==
    /\ pc = "returned"
    /\ arg = <<"Xen", "L", "2">>
    /\ packages = {<<"Xen", "L", "1">>, <<"Xen", "L", "3">>, <<"Xen", "L", LATEST>>}
    /\ ret = <<"Xen", "L", "3">>

---------------------------------------------------------------------------
(* Properties of the delete executor *)

AllOk == \A i \in 1..Len(results) : results[i].ok

NoUnlinkError == \A i \in 1..Len(results) : results[i].msg # "unlink error"

\* C7: a plan executed at once, with no outside change to the files and no
\* unlink error, deletes every entry: all results report success and no id
\* of to_delete is left in the index.
C7_ImmediateExecutionSucceeds ==
    (pc = "executed" /\ external = {} /\ NoUnlinkError) =>
        /\ AllOk
        /\ Range(plan.to_delete) \cap packages = {}

\* C8: execute_delete returns one result per entry of to_delete, in order;
\* an id is gone from the index and from the forward graph exactly when its
\* result is success, a failed id stays in both, and ids that are not in
\* to_delete keep their index entry and their direct dependencies.
C8_PerEntryResults ==
    [][(pc = "planned" /\ pc' = "executed") =>
        /\ Len(results') = Len(plan.to_delete)
        /\ \A i \in 1..Len(plan.to_delete) :
              /\ results'[i].pid = plan.to_delete[i]
              /\ results'[i].ok =>
                    /\ results'[i].pid \notin packages'
                    /\ results'[i].pid \notin DOMAIN deps_cache'
              /\ ~results'[i].ok =>
                    /\ results'[i].pid \in packages'
                    /\ results'[i].pid \in DOMAIN deps_cache'
        /\ \A id \in packages \ Range(plan.to_delete) :
              /\ id \in packages'
              /\ id \in DOMAIN deps_cache'
              /\ deps_cache'[id] = deps_cache[id]
      ]_vars

---------------------------------------------------------------------------
(* Properties of the reverse index *)

\* the ids deleted by the program so far
Deleted == DOMAIN archives \ packages

\* C9: the reverse index is either not built or maps each key to exactly the
\* installed packages that have the key among their direct dependencies; so
\* no get_dependents result names a deleted package.
C9_ReverseIndexFresh ==
    pc # "new" =>
        /\ rdeps_cache.built =>
              /\ DOMAIN rdeps_cache.map =
                    {d \in Refs : \E pid \in packages : d \in deps_cache[pid]}
              /\ \A d \in DOMAIN rdeps_cache.map :
                    rdeps_cache.map[d] = {pid \in packages : d \in deps_cache[pid]}
        /\ \A q \in Refs : get_dependents(CurrentRdeps, q) \cap Deleted = {}

\* the index is built again after a package that had dependencies was deleted
C9_Witness ==
    /\ pc = "executed"
    /\ rdeps_cache.built
    /\ DOMAIN rdeps_cache.map # {}
    /\ \E del \in Deleted : archives[del].meta # {}

---------------------------------------------------------------------------
(* Properties of indexing *)

\* C10: an archive that cannot be read as a ZIP is indexed with no direct
\* dependencies, and indexing neither writes nor overwrites a cache row for it.
C10_UnreadableLeavesCacheAlone ==
    [][(pc = "new" /\ pc' = "ready") =>
        \A pid \in DOMAIN archives :
            (~archives[pid].readable
               /\ ~lookup(cache_ok, cache_rows, pid, archives[pid]).hit) =>
                /\ deps_cache'[pid] = {}
                /\ (pid \in DOMAIN cache_rows') <=> (pid \in DOMAIN cache_rows)
                /\ pid \in DOMAIN cache_rows => cache_rows'[pid] = cache_rows[pid]
      ]_vars

\* C21: when construction indexes an archive whose cache lookup misses, its
\* reference set (the row stored for it, and the references resolved into its
\* direct dependencies) is the manifest-derived set when that set is not
\* empty and the text-derived set otherwise, never their union; on a cache
\* hit the dependencies come from the cached row alone and the row is left
\* as it was.
C21_ManifestElseTextElseCached ==
    [][(pc = "new" /\ pc' = "ready") =>
        \A pid \in DOMAIN archives :
            LET a == archives[pid]
                M == extract_refs_from_meta(a, pid)
                T == extract_refs_from_var(a, pid)
                R == IF M # {} THEN M ELSE T
            IN  IF lookup(cache_ok, cache_rows, pid, a).hit
                THEN /\ deps_cache'[pid] =
                          DirectDeps(cache_rows[pid].refs, pid, DOMAIN archives)
                     /\ pid \in DOMAIN cache_rows'
                     /\ cache_rows'[pid] = cache_rows[pid]
                ELSE /\ deps_cache'[pid] = DirectDeps(R, pid, DOMAIN archives)
                     /\ cache_ok =>
                            /\ pid \in DOMAIN cache_rows'
                            /\ cache_rows'[pid].refs = R
      ]_vars

\* a manager built from an archive whose manifest and text entries name
\* different packages, indexed from the manifest alone
C21_Witness ==
    /\ pc = "ready"
    /\ \E pid \in packages :
          LET M == extract_refs_from_meta(archives[pid], pid)
              T == extract_refs_from_var(archives[pid], pid)
          IN  /\ M # {}
              /\ T \ M # {}
              /\ pid \in DOMAIN cache_rows
              /\ cache_rows[pid].refs = M
              /\ deps_cache[pid] = DirectDeps(M, pid, packages)
              /\ deps_cache[pid] # DirectDeps(M \cup T, pid, packages)

\* C22: when construction completes with a working cache, whatever rows the
\* cache held before, the rows are exactly one per indexed archive, keyed by
\* the archive's basename, and each row matches (as lookup matches) the
\* archive's current mtime and size; and prune(K) removes exactly the rows
\* whose filename is not in K, leaving the others as they were.
C22_RowsMirrorIndex ==
    [][(pc = "new" /\ pc' = "ready" /\ cache_ok) =>
        /\ DOMAIN cache_rows' = packages'
        /\ \A pid \in packages' :
              lookup(cache_ok, cache_rows', pid, archives[pid]).hit
        /\ \A K \in SUBSET IndexIds :
              LET pruned == prune(cache_ok, cache_rows, K)
              IN  /\ DOMAIN pruned = {f \in DOMAIN cache_rows : f \in K}
                  /\ \A f \in DOMAIN pruned : pruned[f] = cache_rows[f]
      ]_vars

\* a manager built over two archives with a working cache: one row is a
\* fresh one, the other was kept from an earlier run because it is within
\* the tolerance of the archive's mtime
C22_Witness ==
    /\ pc = "ready"
    /\ cache_ok
    /\ Cardinality(packages) = 2
    /\ DOMAIN cache_rows = packages
    /\ \E pid \in packages : cache_rows[pid].mtime # archives[pid].mtime
    /\ \E pid \in packages : cache_rows[pid].refs # {}

---------------------------------------------------------------------------
(* Properties of the parsers and the scan *)

\* an author token that is all digits, or v or - followed by digits and dots
AuthorIsNumberLike(tok) ==
    LET author == Chars(tok)
    IN  \/ \A i \in 1..Len(author) : isdigitchar(author[i])
        \/ /\ author[1] \in {"v", "-"}
           /\ \A i \in 2..Len(author) :
                 isdigitchar(author[i]) \/ author[i] = "."

\* C15 as stated: a file name whose author token is all digits or
\* version-like parses to no id, and the scanner indexes no such id.
C15_Original ==
    (pc = "returned" /\ AuthorIsNumberLike(Stem(arg)[1])) =>
        /\ ret.pid = <<>>
        /\ packages = {}

\* C15: parse_id puts no rule on the author token: a file name parses to no
\* id exactly when its stem has fewer than three segments or its version is
\* neither digits nor latest in any case, and else to the stem with a
\* lower-case latest; so v1.2.3.var parses to v1.2.3 and 19.Foo.1.var to
\* 19.Foo.1, and the scanner indexes such an id when the file is a .var.
C15_ParseIgnoresAuthor ==
    pc = "returned" =>
        LET parts == Stem(arg)
            version == VersionOf(parts)
            accepted == /\ Len(parts) >= 3
                        /\ \/ isdigit(version)
                           \/ version \in {"latest", "LATEST", "Latest"}
        IN  /\ ret.pid = <<>> <=> ~accepted
            /\ accepted =>
                  /\ Len(ret.pid) = Len(parts)
                  /\ \A i \in 1..(Len(parts) - 1) : ret.pid[i] = parts[i]
                  /\ ret.pid[Len(parts)] =
                        (IF isdigit(version) THEN version ELSE "latest")
            /\ packages = IF accepted /\ arg[Len(arg)] \in {"var", "VAR"}
                          THEN {ret.pid} ELSE {}

C15_Witness ==
    /\ pc = "returned"
    /\ arg = <<"v1", "2", "3", "var">>
    /\ ret.pid = <<"v1", "2", "3">>
    /\ packages = {<<"v1", "2", "3">>}

\* the positions of the listing whose file parses to pid
Colliding(listing, pid) ==
    {i \in 1..Len(listing) :
        is_var_file(listing[i].name) /\ parse_package_name(listing[i].name) = pid}

\* C17: however many archives parse to one id and in whatever order they
\* are found, the index holds one of them under that id, no colliding
\* archive is larger than the one it holds, and every file is still there.
C17_CollisionKeepsLargest ==
    pc = "returned" =>
        /\ DOMAIN ret = {pid \in {parse_package_name(arg[i].name) : i \in 1..Len(arg)} :
                            Colliding(arg, pid) # {}} \ {<<>>}
        /\ \A pid \in DOMAIN ret :
              /\ \E i \in Colliding(arg, pid) : ret[pid] = arg[i]
              /\ \A j \in Colliding(arg, pid) : ret[pid].size >= arg[j].size
        /\ disk = {PathOf(arg[i]) : i \in 1..Len(arg)}

\* three archives of one id, the largest found second
C17_Witness ==
    /\ pc = "returned"
    /\ Len(arg) = 3
    /\ Colliding(arg, <<"Xen", "L", "latest">>) = {1, 2, 3}
    /\ arg[1].size = 1 /\ arg[2].size = 2 /\ arg[3].size = 1
    /\ ret[<<"Xen", "L", "latest">>] = arg[2]

\* the grammar of a reference, but for the reserved author token
RefGrammar(ref) ==
    /\ Len(ref) >= 3
    /\ isdigit(VersionOf(ref)) \/ VersionOf(ref) \in {"latest", "LATEST", "Latest"}
    /\ ref[2] # "" /\ isalpha(Chars(ref[2])[1])
    /\ Len(Chars(ref[1])) >= 2
    /\ ~AuthorIsNumberLike(ref[1])

\* C16: is_valid_ref holds exactly for the references of the grammar whose
\* author is not the token entries; an author that is only a fragment of
\* that token, such as ent or tri, is accepted.
C16_ValidIffGrammar ==
    pc = "returned" =>
        (ret <=> (RefGrammar(arg) /\ arg[1] # "entries"))

---------------------------------------------------------------------------
(* Properties of the cache *)

\* C11: with a working cache, after any stores, prunes and changes of the
\* files, lookup(p) hits exactly when p exists and a row of p's basename has
\* p's size and an mtime less than 1 ms from p's; a hit returns the set last
\* stored for the basename; so a lookup of an unchanged file returns what
\* was stored, and one after a change of size or of more than 1 ms misses.
C11_LookupHitsIffRowMatches ==
    pc = "looked" =>
        LET name == arg[2]
            live == archives[arg]
        IN  /\ ret.hit <=>
                  /\ arg \in DOMAIN archives
                  /\ name \in DOMAIN cache_rows
                  /\ cache_rows[name].size = live.size
                  /\ Abs(cache_rows[name].mtime - live.mtime) < 1000
            /\ DOMAIN cache_rows = DOMAIN stored
            /\ ret.hit => ret.refs = stored[name].refs
            /\ (arg \in DOMAIN archives /\ name \in DOMAIN stored) =>
                  /\ (live.mtime = stored[name].mtime
                        /\ live.size = stored[name].size)
                        => (ret.hit /\ ret.refs = stored[name].refs)
                  /\ (Abs(live.mtime - stored[name].mtime) > 1000
                        \/ live.size # stored[name].size)
                        => ~ret.hit

\* a hit through the other directory's archive, touched within the tolerance
C11_Witness ==
    /\ pc = "looked"
    /\ ret.hit
    /\ ret.refs # {}
    /\ archives[arg].mtime # cache_rows[arg[2]].mtime

\* what construction yields over a working cache with no rows
EmptyCacheRaises ==
    \E pid \in DOMAIN archives : IndexRaises(TRUE, NoRows, pid, archives[pid])

EmptyCacheDeps ==
    [pid \in DOMAIN archives |->
        DirectDeps(IndexedRefs(TRUE, NoRows, pid, archives[pid]).refs,
                   pid, DOMAIN archives)]

\* C12: when the cache store cannot be created, opened or queried, store and
\* prune change nothing and construction ends as it does over a working
\* cache with no rows, with the same index and the same forward graph.
C12_UnusableCacheIsHarmless ==
    (pc # "new" /\ ~(cache_dir_ok /\ cache_ok)) =>
        /\ cache_rows = NoRows
        /\ IF EmptyCacheRaises THEN pc = "failed"
           ELSE /\ pc = "ready"
                /\ packages = DOMAIN archives
                /\ deps_cache = EmptyCacheDeps

---------------------------------------------------------------------------
(* Properties of the queries *)

\* the place of an id in sorted order
Pos(id) == CHOOSE i \in 1..Len(IdOrder) : IdOrder[i] = id

\* what C18 says of one list that find_missing returned
MissingListOk(l, pkgs, deps) ==
    /\ {l[i][1] : i \in 1..Len(l)} =
          {d \in Refs : d \notin pkgs /\ \E pid \in pkgs : d \in deps[pid]}
    /\ \A i, j \in 1..Len(l) : l[i][1] = l[j][1] => i = j
    /\ \A i \in 1..Len(l) :
          /\ l[i][1] \notin pkgs
          /\ Range(l[i][2]) = {pid \in pkgs : l[i][1] \in deps[pid]}
          /\ \A m, n \in 1..Len(l[i][2]) :
                m < n => Pos(l[i][2][m]) < Pos(l[i][2][n])
    /\ \A i, j \in 1..Len(l) : i < j => Len(l[i][2]) >= Len(l[j][2])

RECURSIVE ReachWithin(_, _, _)
\* S and what k more forward edges reach from it; a node without a row of
\* the forward graph has no edges
ReachWithin(deps, S, k) ==
    IF k = 0 THEN S
    ELSE ReachWithin(deps,
                     S \cup UNION {(IF d \in DOMAIN deps THEN deps[d] ELSE {}) : d \in S},
                     k - 1)

\* the nodes that one or more forward edges reach from pid
Reachable(deps, pid) ==
    ReachWithin(deps, IF pid \in DOMAIN deps THEN deps[pid] ELSE {},
                Cardinality(Refs))

\* C19: for an installed pid the recursive dependencies are exactly the
\* nodes that one or more forward edges reach from pid, and they include
\* the direct ones; for a pid that is not installed both queries are empty.
C19_RecursiveIsReachable ==
    pc = "deps" =>
        IF arg \in packages
        THEN /\ ret.all = Reachable(deps_cache, arg)
             /\ ret.direct = deps_cache[arg]
             /\ ret.direct \subseteq ret.all
        ELSE ret.all = {} /\ ret.direct = {}

\* a dependency reached through another one only, after a deletion
C19_Witness ==
    /\ pc = "deps"
    /\ packages # DOMAIN archives
    /\ ret.all \ ret.direct # {}

\* C18: find_missing returns one entry for each reference that is a direct
\* dependency of an installed package and is not installed, with the sorted
\* list of exactly the installed packages that depend on it directly; no
\* entry names an installed id; entries with more dependents come first.
C18_MissingExactAndOrdered ==
    pc = "returned" => MissingListOk(ret, packages, deps_cache)

\* two missing references, the one with two dependents first
C18_Witness ==
    /\ pc = "returned"
    /\ Len(ret) = 2
    /\ Len(ret[1][2]) = 2
    /\ Len(ret[2][2]) = 1

\* the ids of the rows of the forward graph
Rows == DOMAIN deps_cache

\* C20: once a manager is constructed the forward graph has a row for
\* exactly the ids of the index; construction creates a row for every
\* archive found, and a row goes exactly when execute_delete reports the
\* deletion of its package as successful.
C20_RowsAreIndexKeys ==
    [][/\ pc' \notin {"new", "failed"} => DOMAIN deps_cache' = packages'
       /\ (pc = "new" /\ pc' = "ready") => DOMAIN deps_cache' = DOMAIN archives
       /\ (pc = "planned" /\ pc' = "executed") =>
             Rows \ DOMAIN deps_cache' =
                {results'[i].pid : i \in {k \in 1..Len(results') : results'[k].ok}}
       /\ ~(pc = "new" \/ (pc = "planned" /\ pc' = "executed")) =>
             DOMAIN deps_cache' = Rows
      ]_vars

\* a delete that removed one package and failed on another
C20_Witness ==
    /\ pc = "executed"
    /\ \E i, j \in 1..Len(results) : results[i].ok /\ ~results[j].ok
    /\ packages # {}
    /\ DOMAIN deps_cache = packages

---------------------------------------------------------------------------
(* Properties of the dependency tree *)

\* d is a digit version and the closure has a newer sibling: base.latest or
\* a larger digit version of d's base
HasNewerIn(closure, d) ==
    /\ isdigit(VersionOf(d))
    /\ \E e \in closure :
          /\ BaseOf(e) = BaseOf(d)
          /\ \/ VersionOf(e) = LATEST
             \/ isdigit(VersionOf(e)) /\ int(VersionOf(e)) > int(VersionOf(d))

\* C14: the tree of an installed pid lists no digit-versioned dependency
\* that has a newer sibling in pid's closure; the pruning skips no latest
\* dependency and no digit version that has no newer sibling, so each such
\* direct dependency of pid is listed at depth 1.
C14_TreeSkipsExactlySuperseded ==
    pc = "tree" =>
        LET closure == get_dependencies(packages, deps_cache, arg, TRUE)
        IN  /\ \A i \in 1..Len(ret) : ~HasNewerIn(closure, ret[i][1])
            /\ \A d \in closure :
                  ~HasNewerIn(closure, d) => ~is_superseded(closure, d)
            /\ \A d \in deps_cache[arg] :
                  ~HasNewerIn(closure, d) =>
                      \E i \in 1..Len(ret) : ret[i] = <<d, 1, arg>>

\* arg depends on two versions of a base: the tree lists the newer one only
C14_Witness ==
    /\ pc = "tree"
    /\ deps_cache[arg] = {<<"Xen", "L", "1">>, <<"Xen", "L", "2">>}
    /\ ret = << <<<<"Xen", "L", "2">>, 1, arg>> >>

\* every recursive dependency of arg that has no newer sibling in the
\* closure is the dep of some triple of the tree
TreeShowsEveryCurrentDep ==
    LET closure == get_dependencies(packages, deps_cache, arg, TRUE)
    IN  \A d \in closure :
            ~HasNewerIn(closure, d) => \E i \in 1..Len(ret) : ret[i][1] = d

\* C27: with max_depth at least the number of nodes, every recursive
\* dependency of an installed pid that is not superseded is the dep of at
\* least one triple of get_dep_tree(pid, max_depth): the tree omits only
\* superseded versions.
C27_TreeOmitsOnlySuperseded ==
    (pc = "tree" /\ DEFAULT_MAX_DEPTH >= Cardinality(Refs)) =>
        TreeShowsEveryCurrentDep

---------------------------------------------------------------------------
(* Properties of delete plans *)

\* C24: in a with_deps plan no installed package outside to_delete depends,
\* directly or transitively, on a member of delete_deps; so once every
\* member of the plan is deleted, the only deleted id that a remaining
\* package still depends on is the target.
C24_DeletedDepsAreUnused ==
    /\ (pc = "planned" /\ plan.with_deps) =>
          \A q \in packages \ Range(plan.to_delete) :
              Reachable(deps_cache, q) \cap plan.delete_deps = {}
    /\ (pc = "executed" /\ plan.with_deps
          /\ Range(plan.to_delete) \cap packages = {}) =>
          \A q \in packages :
              Reachable(deps_cache, q) \cap Range(plan.to_delete)
                  \subseteq {plan.target}

\* a plan that deleted the target with a dependency of it, executed in
\* full, beside a package that stays and has a dependency of its own
C24_Witness ==
    /\ pc = "executed"
    /\ plan.with_deps
    /\ plan.delete_deps # {}
    /\ Range(plan.to_delete) \cap packages = {}
    /\ \E q \in packages : deps_cache[q] # {}

\* how often id occurs in the list seq
Occurrences(seq, id) == Cardinality({i \in 1..Len(seq) : seq[i] = id})

\* the target is listed once for deletion, nothing is listed twice, and the
\* target is neither a dependency to delete nor one to keep
PlanListsTargetOnce ==
    /\ Occurrences(plan.to_delete, plan.target) = 1
    /\ \A id \in Range(plan.to_delete) : Occurrences(plan.to_delete, id) = 1
    /\ plan.target \notin plan.delete_deps
    /\ \A k \in plan.keep_deps : k[1] # plan.target

\* C26: whatever the graph (cycles through pid, references resolving to pid)
\* and with_deps, the plan lists the target in to_delete exactly once,
\* repeats no id there, and has pid neither in delete_deps nor as a
\* dependency in keep_deps.
C26_PlanListsTargetOnce ==
    pc = "planned" => PlanListsTargetOnce

\* the forward graph a manager constructed now would build: the archives
\* still on disk, their references read from the cache or the archive and
\* resolved against the index of those archives
FreshForwardGraph ==
    [pid \in disk |->
        DirectDeps(IndexedRefs(cache_ok, prune(cache_ok, cache_rows, disk),
                               pid, archives[pid]).refs,
                   pid, disk)]

\* C25: after an execute_delete whose every entry succeeded, the forward
\* graph of the running manager is the one a freshly constructed manager
\* would build over the remaining archives, so get_dependencies,
\* find_missing and find_orphans answer alike before and after a restart.
C25_RunningEqualsFresh ==
    (pc = "executed" /\ \A i \in 1..Len(results) : results[i].ok) =>
        /\ packages = disk
        /\ deps_cache = FreshForwardGraph
        /\ \A pid \in Refs :
              get_dependencies(packages, deps_cache, pid, TRUE) =
                  get_dependencies(disk, FreshForwardGraph, pid, TRUE)
        /\ find_missing(packages, deps_cache) =
              find_missing(disk, FreshForwardGraph)
        /\ find_orphans(packages, deps_cache) =
              find_orphans(disk, FreshForwardGraph)

---------------------------------------------------------------------------
(* Properties of the traversals *)

\* the triples appended so far, and the calls of walk that are active
TriplesWellFormed ==
    pc \in {"tree", "returned"} /\ arg.op = "tree" =>
        /\ \A i \in 1..Len(ret) :
              LET dep == ret[i][1]
                  depth == ret[i][2]
                  parent == ret[i][3]
              IN  /\ 1 <= depth
                  /\ depth <= arg.max_depth
                  /\ dep \in DepsGet(deps_cache, parent)
                  /\ depth = 1 => parent = arg.pid
        /\ pc = "tree" =>
              \A i, j \in 1..Len(stored) :
                  stored[i].node = stored[j].node => i = j

\* C23: on every forward graph, cycles and self-loops included,
\* get_dependencies(pid, recursive), get_dependents(pid) and
\* get_dep_tree(pid, max_depth) return; every triple of get_dep_tree has
\* 1 <= depth <= max_depth, a dep that is a direct dependency of its parent,
\* and parent pid at depth 1; and the calls of walk that are active at any
\* time, a root-to-leaf path, expand distinct nodes.
C23_TraversalsTerminate ==
    /\ (pc \in {"deps", "dependents", "tree"}) ~> (pc = "returned")
    /\ []TriplesWellFormed

\* a tree returned over a cycle through pid that ends in a self-loop, cut
\* at max_depth 2 with a triple at that depth
C23_Witness ==
    /\ pc = "returned"
    /\ arg.op = "tree"
    /\ arg.max_depth = 2
    /\ \E i \in 1..Len(ret) : ret[i][2] = 2
    /\ \E d \in packages \ {arg.pid} :
          /\ d \in DepsGet(deps_cache, arg.pid)
          /\ arg.pid \in DepsGet(deps_cache, d)
          /\ d \in DepsGet(deps_cache, d)

---------------------------------------------------------------------------
(* Properties of error handling *)

\* C13: no operation raises: construction returns a manager whatever the
\* manifests hold, and in every state of a constructed manager package_info,
\* find_orphans and plan_delete return a value for every installed package
\* (find_missing, get_dep_tree and execute_delete have no statement that
\* can raise).  The installation directory exists in every scenario.
C13_NoOperationRaises ==
    /\ pc # "failed"
    /\ pc = "ready" =>
          /\ ~find_orphans_raises(packages, deps_cache, disk)
          /\ \A pid \in packages :
                /\ ~package_info_raises(packages, disk, archives, pid)
                /\ \A with_deps \in BOOLEAN :
                      ~plan_delete_raises(packages, deps_cache, CurrentRdeps,
                                          disk, pid, with_deps)

---------------------------------------------------------------------------
(* Side conditions under which the refuted statements do hold *)

NoDuplicates(seq) == \A i, j \in 1..Len(seq) : seq[i] = seq[j] => i = j

Side_C7_NoDuplicates ==
    NoDuplicates(plan.to_delete) => C7_ImmediateExecutionSucceeds

Side_C8_NoDuplicates ==
    [][(pc = "planned" /\ pc' = "executed" /\ NoDuplicates(plan.to_delete)) =>
        /\ Len(results') = Len(plan.to_delete)
        /\ \A i \in 1..Len(plan.to_delete) :
              /\ results'[i].pid = plan.to_delete[i]
              /\ results'[i].ok =>
                    /\ results'[i].pid \notin packages'
                    /\ results'[i].pid \notin DOMAIN deps_cache'
              /\ ~results'[i].ok =>
                    /\ results'[i].pid \in packages'
                    /\ results'[i].pid \in DOMAIN deps_cache'
        /\ \A id \in packages \ Range(plan.to_delete) :
              /\ id \in packages'
              /\ id \in DOMAIN deps_cache'
              /\ deps_cache'[id] = deps_cache[id]
      ]_vars

Side_SelfLoopOnly ==
    pc = "planned" =>
        (~NoDuplicates(plan.to_delete) => plan.target \in deps_cache[plan.target])

Side_C3_NoLatestInstalled ==
    (\A p \in DOMAIN archives : VersionOf(p) # LATEST) => C3_ForwardIffDependent

Side_C4_AfterIndexing ==
    (packages = DOMAIN archives) => C4_OrphanIffUnreferenced

Side_C4_OrphanSound ==
    pc # "new" =>
        \A pid \in packages :
            (pid \notin find_orphans(packages, deps_cache))
                => \E other \in packages \ {pid} :
                        \E d \in deps_cache[other] :
                            resolve_ref(d, packages) = pid

Side_C12_StoreNotOpened ==
    cache_dir_ok => C12_UnusableCacheIsHarmless

Side_C16_FragmentsRejected ==
    pc = "returned" =>
        (ret <=> (RefGrammar(arg) /\ ~IsSubstring(Chars(arg[1]), Chars("entries"))))

Side_C18_AfterDeletes ==
    pc \notin {"new", "failed"} =>
        /\ find_missing(packages, deps_cache) # {}
        /\ \A l \in find_missing(packages, deps_cache) :
              MissingListOk(l, packages, deps_cache)

Side_C20_AnyArchive ==
    pc \notin {"new", "failed"} => DOMAIN deps_cache = DOMAIN archives

Side_C14_EveryState ==
    pc \notin {"new", "failed"} =>
        \A pid \in packages :
            LET closure == get_dependencies(packages, deps_cache, pid, TRUE)
                tree == get_dep_tree(packages, deps_cache, pid, DEFAULT_MAX_DEPTH)
            IN  /\ \A i \in 1..Len(tree) : ~HasNewerIn(closure, tree[i][1])
                /\ \A d \in deps_cache[pid] :
                      ~HasNewerIn(closure, d) =>
                          \E i \in 1..Len(tree) : tree[i] = <<d, 1, pid>>

Side_C19_EveryState ==
    pc \notin {"new", "failed"} =>
        \A pid \in Refs :
            get_dependencies(packages, deps_cache, pid, TRUE) =
                (IF pid \in packages THEN Reachable(deps_cache, pid) ELSE {})

\* the scan gives distinct index entries distinct basenames, the cache keys
Side_C22_DistinctKeys ==
    pc = "returned" =>
        \A p, q \in DOMAIN ret : p # q => ret[p].name # ret[q].name

\* run statement by statement, the traversals return what the operators
\* get_dependencies, get_dependents and get_dep_tree compute
Side_C23_StepsAgree ==
    pc = "returned" =>
        \/ /\ arg.op = "deps"
           /\ Range(ret) = get_dependencies(packages, deps_cache, arg.pid, TRUE)
        \/ /\ arg.op = "dependents"
           /\ Range(ret) = get_dependents(rdeps_cache.map, arg.pid)
        \/ /\ arg.op = "tree"
           /\ ret = get_dep_tree(packages, deps_cache, arg.pid, arg.max_depth)

\* right after indexing the running manager's graph is the fresh one
Side_C25_AfterIndexing ==
    (pc = "ready" /\ packages = DOMAIN archives /\ disk = packages) =>
        deps_cache = FreshForwardGraph

\* as long as no remaining package depends on a deleted one, the running
\* manager's graph is the fresh one
Side_C25_NoDanglingDependency ==
    (pc = "executed"
       /\ \A q \in packages :
              deps_cache[q] \cap (DOMAIN archives \ packages) = {}) =>
        deps_cache = FreshForwardGraph

\* a plan is well formed whenever its target is not among its own
\* recursive dependencies, and always without with_deps
Side_C26_TargetOutsideItsClosure ==
    (pc = "planned"
       /\ (~plan.with_deps
             \/ plan.target \notin Reachable(deps_cache, plan.target))) =>
        PlanListsTargetOnce

\* the tree shows the whole closure when nothing in it is superseded
Side_C27_NothingSuperseded ==
    (pc = "tree"
       /\ LET closure == get_dependencies(packages, deps_cache, arg, TRUE)
          IN  \A d \in closure : ~HasNewerIn(closure, d)) =>
        TreeShowsEveryCurrentDep

====
